---- MODULE Spec2Model ----
(***************************************************************************)
(* Model of huldufolk, the usermode-helper gatekeeper (src/src/main.rs).   *)
(* One process, one invocation: main() walks a fixed pipeline              *)
(*   sanitize_fds -> log_to_kmsg -> Config::load -> args_os ->             *)
(*   find_helper -> priv_restrict (if configured) -> debug dump -> exec    *)
(* and every kernel call may be refused by the kernel.                     *)
(***************************************************************************)
EXTENDS Integers, Sequences, FiniteSets, TLC

(* ---- bounds of the model ---- *)
MaxFd == 4          \* descriptors are 0..MaxFd (the descriptor limit)
MaxArgs == 2        \* longest invocation vector
MaxHelpers == 2     \* longest helper registry
MaxCapStr == 4      \* longest capability string drawn from CapChars
MaxNames == 2       \* longest list of capability names written in legacy form

(* ---- constants of the program ---- *)
SECBIT_NOROOT == 1
EXIT_FAIL == 1
EXIT_NO_DEVNULL == 2
EXIT_FAIL_IF_Generic == EXIT_FAIL   \* variant: fail_if exits with the generic status
EXIT_FAIL_IF == 3
CLOSE_FROM == 3
StdFds == <<0, 1, 2>>
PanicOutcomes == {101, 134}   \* unwinding panic exits 101, aborting panic dies of SIGABRT

(* ---- Option<T> : None is the empty set, Some(x) the singleton ---- *)
None == {}
Some(x) == {x}
Unwrap(o) == CHOOSE x \in o : TRUE

(* ---- value universes ---- *)
Caps == {"CAP_SYS_MODULE", "CAP_NET_ADMIN", "CAP_SYS_ADMIN"}
ModuleCaps == {"CAP_SYS_MODULE", "CAP_NET_ADMIN"}
HelperPaths == {"/sbin/modprobe", "/sbin/hotplug"}
ArgTokens == HelperPaths
ArgcOptions == {None, Some(1)}
CapOptions == {None, Some({}), Some(ModuleCaps)}
Closed == "closed"
Inherited == "inherited"
DevNull == "/dev/null"
DevKmsg == "/dev/kmsg"

Helper == [path : HelperPaths, argc : ArgcOptions, capabilities : CapOptions]

SeqsUpTo(S, n) == UNION {[1..k -> S] : k \in 0..n}

Config == SeqsUpTo(Helper, MaxHelpers)
ArgVectors == SeqsUpTo(ArgTokens, MaxArgs)

(* the kernel-visible privilege state of a usermode helper at process start: *)
(* root with every capability, nothing inheritable or ambient               *)
StartStates ==
  { [securebits |-> 0, Effective |-> Caps, Inheritable |-> {},
     Permitted |-> Caps, Ambient |-> {}, no_new_privs |-> FALSE] }

ExecEnv == { <<"HOME", "/">>, <<"TERM", "linux">>, <<"PATH", "/sbin:/bin:/usr/sbin:/usr/bin">> }

VARIABLES
  pc,          \* position in main / sanitize_fds / priv_restrict
  fds,         \* descriptor table: fd -> what it refers to
  nfd,         \* sanitize_fds: the raw descriptor of /dev/null (-1 before the open)
  stdfd,       \* sanitize_fds: index in StdFds of the next dup2
  config,      \* main: the loaded registry (helpers in declaration order)
  args,        \* main: the invocation vector
  helper,      \* main: index in config of the matched helper (0 before the match)
  setIdx,      \* priv_restrict: index of the next category in CapSetOrder
  pending,     \* priv_restrict: capabilities the ambient loop has not visited yet
  kern,        \* securebits, the four capability categories, no-new-privileges
  start,       \* kern at process start
  trace,       \* the calls made so far, in order
  exitStatus,  \* None while running, Some(status) after exit
  image,       \* None, or Some(the image exec replaced the process with)
  env,         \* the inherited environment; None until main first reads it (line 208)
  twin,        \* None, or Some(what the run with the opposite HULDUFOLK_DEBUG does)
  capkey,      \* deserialization of Helper.capabilities: the key's string, None if absent
  caplist,     \* the decorated capability names capkey was written from, if any
  capres       \* None, or Some(the result of the deserialization)

mainVars == <<pc, fds, nfd, stdfd, config, args, helper, setIdx, pending, kern, start,
              trace, exitStatus, image, env, twin>>

parserVars == <<capkey, caplist, capres>>

vars == <<pc, fds, nfd, stdfd, config, args, helper, setIdx, pending, kern, start,
          trace, exitStatus, image, env, twin, capkey, caplist, capres>>

Ev(op, arg, ok) == [op |-> op, arg |-> arg, ok |-> ok]

(* variant: the configuration is read before the descriptors are sanitized *)
MainSeqLoadFirst == <<"load", "sanitize_fds", "log_to_kmsg", "args", "find_helper",
                      "priv_restrict", "debug", "execute">>

(* ---- main: the order of the calls ---- *)
MainSeq == <<"sanitize_fds", "log_to_kmsg", "load", "args", "find_helper",
             "priv_restrict", "debug", "execute">>

StageIndex(s) == CHOOSE i \in 1..Len(MainSeq) : MainSeq[i] = s

After(s) == IF StageIndex(s) < Len(MainSeq) THEN MainSeq[StageIndex(s) + 1] ELSE "returned"

(* variant: no-new-privileges is set before the ambient raises *)
PrivSeqNnpEarly == <<"securebits", "capset", "nnp", "ambient">>

(* ---- priv_restrict: the order of its four steps ---- *)
PrivSeq == <<"securebits", "capset", "ambient", "nnp">>

PrivIndex(s) == CHOOSE i \in 1..Len(PrivSeq) : PrivSeq[i] = s

PrivAfter(s) == IF PrivIndex(s) < Len(PrivSeq) THEN PrivSeq[PrivIndex(s) + 1]
                ELSE After("priv_restrict")

CapSetOrder == <<"Effective", "Inheritable", "Permitted">>

(* ---- descriptor table ---- *)
HasFree(t) == \E fd \in DOMAIN t : t[fd] = Closed

LowestFree(t) == CHOOSE fd \in DOMAIN t : t[fd] = Closed /\ \A g \in DOMAIN t : g < fd => t[g] # Closed

Dup2(t, old, new) == [t EXCEPT ![new] = t[old]]

\* variant: the bulk close starts one descriptor too high
CloseRangeAbove(t, first) == [fd \in DOMAIN t |-> IF fd > first THEN Closed ELSE t[fd]]

CloseRange(t, first) == [fd \in DOMAIN t |-> IF fd >= first THEN Closed ELSE t[fd]]

(* ---- Helper::allowed and Config::find_helper ---- *)
\* variant: the length test accepts a longer vector (prefix match)
allowedPrefix(h, a) ==
  IF ~(Len(a) >= 1 /\ a[1] = h.path) THEN FALSE
  ELSE IF h.argc # None /\ Len(a) < Unwrap(h.argc) THEN FALSE
  ELSE TRUE

\* variant: a missing element 0 is taken to match (map_or(true, ..))
allowedNoArg0(h, a) ==
  IF ~(Len(a) = 0 \/ a[1] = h.path) THEN FALSE
  ELSE IF h.argc # None /\ Len(a) # Unwrap(h.argc) THEN FALSE
  ELSE TRUE

allowed(h, a) ==
  IF ~(Len(a) >= 1 /\ a[1] = h.path) THEN FALSE
  ELSE IF h.argc # None /\ Len(a) # Unwrap(h.argc) THEN FALSE
  ELSE TRUE

RECURSIVE IterFind(_, _, _)
IterFind(hs, a, i) ==
  IF i > Len(hs) THEN 0
  ELSE IF allowed(hs[i], a) THEN i
  ELSE IterFind(hs, a, i + 1)

\* variant: an unmatched invocation falls back to the first helper with its path
find_helper_fallback(hs, a) ==
  IF IterFind(hs, a, 1) # 0 THEN IterFind(hs, a, 1)
  ELSE IF \E k \in 1..Len(hs) : Len(a) >= 1 /\ hs[k].path = a[1]
       THEN CHOOSE k \in 1..Len(hs) : hs[k].path = a[1] /\ \A j \in 1..(k - 1) : hs[j].path # a[1]
       ELSE IF Len(hs) > 0 /\ Len(a) >= 1 THEN 1 ELSE 0

\* variant: the last matching helper wins
find_helper_last(hs, a) ==
  IF \E k \in 1..Len(hs) : allowed(hs[k], a)
  THEN CHOOSE k \in 1..Len(hs) : allowed(hs[k], a) /\ \A j \in (k + 1)..Len(hs) : ~allowed(hs[j], a)
  ELSE 0

find_helper(hs, a) == IterFind(hs, a, 1)

(* ---- caps::set and caps::raise on one category ---- *)
\* variant: the category is extended, not replaced
capsSetUnion(old, new) == old \cup new

capsSet(old, new) == new

capsRaise(old, cap) == old \cup {cap}

\* variant: the commented-out "zero-trust" alternative, absent means the empty set
MainCapsZeroTrust(h) == IF h.capabilities = None THEN Some({}) ELSE h.capabilities

(* the capability set main hands to priv_restrict, None when it does not call it *)
MainCaps(h) == h.capabilities

Init ==
  /\ pc = MainSeq[1]
  /\ fds \in [0..MaxFd -> {Closed, Inherited}]
  /\ nfd = -1
  /\ stdfd = 1
  /\ config = <<>>
  /\ args = <<>>
  /\ helper = 0
  /\ setIdx = 1
  /\ pending = {}
  /\ kern \in StartStates
  /\ start = kern
  /\ trace = <<>>
  /\ exitStatus = None
  /\ image = None
  /\ env = None
  /\ twin = None
  /\ capkey = None
  /\ caplist = None
  /\ capres = None

(* exit(code) after the call `ev` failed *)
Exit(ev, code) ==
  /\ pc' = "exited"
  /\ exitStatus' = Some(code)
  /\ trace' = Append(trace, ev)

(* the call `ev` succeeded and control moves to `to` *)
Goto(ev, to) ==
  /\ pc' = to
  /\ trace' = Append(trace, ev)
  /\ UNCHANGED exitStatus

(* sanitize_fds: open /dev/null *)
SanitizeOpen ==
  /\ pc = "sanitize_fds"
  /\ \E ok \in BOOLEAN :
       IF ok /\ HasFree(fds)
       THEN /\ nfd' = LowestFree(fds)
            /\ fds' = [fds EXCEPT ![LowestFree(fds)] = DevNull]
            /\ stdfd' = 1
            /\ Goto(Ev("open", DevNull, TRUE), "dup2")
       ELSE /\ Exit(Ev("open", DevNull, FALSE), EXIT_NO_DEVNULL)
            /\ UNCHANGED <<nfd, fds, stdfd>>
  /\ UNCHANGED <<config, args, helper, setIdx, pending, kern, start, image>>
  /\ UNCHANGED <<env, twin>>
  /\ UNCHANGED parserVars

(* sanitize_fds: dup2(nfd, 0), dup2(nfd, 1), dup2(nfd, 2) *)
SanitizeDup2 ==
  /\ pc = "dup2"
  /\ \E ok \in BOOLEAN :
       IF ok
       THEN /\ fds' = Dup2(fds, nfd, StdFds[stdfd])
            /\ stdfd' = stdfd + 1
            /\ Goto(Ev("dup2", ToString(StdFds[stdfd]), TRUE),
                    IF stdfd = Len(StdFds) THEN "close_range" ELSE "dup2")
       ELSE /\ Exit(Ev("dup2", ToString(StdFds[stdfd]), FALSE), EXIT_FAIL_IF)
            /\ UNCHANGED <<fds, stdfd>>
  /\ UNCHANGED <<nfd, config, args, helper, setIdx, pending, kern, start, image>>
  /\ UNCHANGED <<env, twin>>
  /\ UNCHANGED parserVars

(* sanitize_fds: close_range(3, ~0, 0), then return to main *)
SanitizeCloseRange ==
  /\ pc = "close_range"
  /\ \E ok \in BOOLEAN :
       IF ok
       THEN /\ fds' = CloseRange(fds, CLOSE_FROM)
            /\ nfd' = -1        \* the locals of sanitize_fds end with it
            /\ stdfd' = 1
            /\ Goto(Ev("close_range", "", TRUE), After("sanitize_fds"))
       ELSE /\ Exit(Ev("close_range", "", FALSE), EXIT_FAIL_IF)
            /\ UNCHANGED <<fds, nfd, stdfd>>
  /\ UNCHANGED <<config, args, helper, setIdx, pending, kern, start, image>>
  /\ UNCHANGED <<env, twin>>
  /\ UNCHANGED parserVars

(* log_to_kmsg: best effort; the File is dropped (closed) at the end of the if *)
LogToKmsg ==
  /\ pc = "log_to_kmsg"
  /\ \E opened \in BOOLEAN, dupok \in BOOLEAN :
       /\ fds' = IF opened /\ HasFree(fds) /\ dupok
                 THEN [fds EXCEPT ![StdFds[3]] = DevKmsg]
                 ELSE fds
       /\ Goto(Ev("log_to_kmsg", "", opened /\ HasFree(fds) /\ dupok), After("log_to_kmsg"))
  /\ UNCHANGED <<nfd, stdfd, config, args, helper, setIdx, pending, kern, start, image>>
  /\ UNCHANGED <<env, twin>>
  /\ UNCHANGED parserVars

(* Config::load: read the file, parse it *)
ConfigLoad ==
  /\ pc = "load"
  /\ \/ \E why \in {"read", "parse"} :
          /\ Exit(Ev("load", why, FALSE), EXIT_FAIL)
          /\ UNCHANGED config
     \/ \E c \in Config :
          /\ config' = c
          /\ Goto(Ev("load", "", TRUE), After("load"))
  /\ UNCHANGED <<fds, nfd, stdfd, args, helper, setIdx, pending, kern, start, image>>
  /\ UNCHANGED <<env, twin>>
  /\ UNCHANGED parserVars

(* std::env::args_os().collect() *)
CollectArgs ==
  /\ pc = "args"
  /\ \E a \in ArgVectors :
       /\ args' = a
       /\ Goto(Ev("args", "", TRUE), After("args"))
  /\ UNCHANGED <<fds, nfd, stdfd, config, helper, setIdx, pending, kern, start, image>>
  /\ UNCHANGED <<env, twin>>
  /\ UNCHANGED parserVars

(* Config::find_helper *)
FindHelper ==
  /\ pc = "find_helper"
  /\ IF Len(args) = 0
     THEN /\ \E s \in PanicOutcomes : Exit(Ev("find_helper", "panic", FALSE), s)
          /\ UNCHANGED helper
     ELSE IF find_helper(config, args) = 0
     THEN /\ Exit(Ev("find_helper", args[1], FALSE), EXIT_FAIL)
          /\ UNCHANGED helper
     ELSE /\ helper' = find_helper(config, args)
          /\ Goto(Ev("find_helper", args[1], TRUE), After("find_helper"))
  /\ UNCHANGED <<fds, nfd, stdfd, config, args, setIdx, pending, kern, start, image>>
  /\ UNCHANGED <<env, twin>>
  /\ UNCHANGED parserVars

(* main: if let Some(caps) = &helper.capabilities { priv_restrict(caps) } *)
MainIfCaps ==
  /\ pc = "priv_restrict"
  /\ IF MainCaps(config[helper]) = None
     THEN /\ pc' = After("priv_restrict")
          /\ UNCHANGED <<setIdx, pending>>
     ELSE /\ pc' = PrivSeq[1]
          /\ setIdx' = 1
          /\ pending' = Unwrap(MainCaps(config[helper]))
  /\ UNCHANGED <<fds, nfd, stdfd, config, args, helper, kern, start, trace, exitStatus, image>>
  /\ UNCHANGED <<env, twin>>
  /\ UNCHANGED parserVars

(* priv_restrict step 1: prctl(PR_SET_SECUREBITS, SECBIT_NOROOT) *)
SetSecurebits ==
  /\ pc = "securebits"
  /\ \E ok \in BOOLEAN :
       IF ok
       THEN /\ kern' = [kern EXCEPT !.securebits = SECBIT_NOROOT]
            /\ Goto(Ev("securebits", "", TRUE), PrivAfter("securebits"))
       ELSE /\ Exit(Ev("securebits", "", FALSE), EXIT_FAIL)
            /\ UNCHANGED kern
  /\ UNCHANGED <<fds, nfd, stdfd, config, args, helper, setIdx, pending, start, image>>
  /\ UNCHANGED <<env, twin>>
  /\ UNCHANGED parserVars

(* priv_restrict step 2: one iteration of the loop over the three categories *)
CapSet ==
  /\ pc = "capset"
  /\ setIdx <= Len(CapSetOrder)
  /\ \E ok \in BOOLEAN :
       IF ok
       THEN /\ kern' = [kern EXCEPT ![CapSetOrder[setIdx]] =
                          capsSet(kern[CapSetOrder[setIdx]], Unwrap(MainCaps(config[helper])))]
            /\ setIdx' = setIdx + 1
            /\ Goto(Ev("capset", CapSetOrder[setIdx], TRUE), "capset")
       ELSE /\ Exit(Ev("capset", CapSetOrder[setIdx], FALSE), EXIT_FAIL)
            /\ UNCHANGED <<kern, setIdx>>
  /\ UNCHANGED <<fds, nfd, stdfd, config, args, helper, pending, start, image>>
  /\ UNCHANGED <<env, twin>>
  /\ UNCHANGED parserVars

(* priv_restrict step 2: the loop over the categories is exhausted *)
CapSetDone ==
  /\ pc = "capset"
  /\ setIdx > Len(CapSetOrder)
  /\ pc' = PrivAfter("capset")
  /\ UNCHANGED <<fds, nfd, stdfd, config, args, helper, setIdx, pending, kern, start,
                 trace, exitStatus, image>>
  /\ UNCHANGED <<env, twin>>
  /\ UNCHANGED parserVars

(* priv_restrict step 3: one iteration of the loop over the HashSet (any order) *)
AmbientRaise ==
  /\ pc = "ambient"
  /\ \E cap \in pending, ok \in BOOLEAN :
       IF ok
       THEN /\ kern' = [kern EXCEPT !.Ambient = capsRaise(kern.Ambient, cap)]
            /\ pending' = pending \ {cap}
            /\ Goto(Ev("ambient", cap, TRUE), "ambient")
       ELSE /\ Exit(Ev("ambient", cap, FALSE), EXIT_FAIL)
            /\ UNCHANGED <<kern, pending>>
  /\ UNCHANGED <<fds, nfd, stdfd, config, args, helper, setIdx, start, image>>
  /\ UNCHANGED <<env, twin>>
  /\ UNCHANGED parserVars

(* priv_restrict step 3: the loop over the HashSet is exhausted *)
AmbientDone ==
  /\ pc = "ambient"
  /\ pending = {}
  /\ pc' = PrivAfter("ambient")
  /\ UNCHANGED <<fds, nfd, stdfd, config, args, helper, setIdx, pending, kern, start,
                 trace, exitStatus, image>>
  /\ UNCHANGED <<env, twin>>
  /\ UNCHANGED parserVars

(* variant: the result of prctl(PR_SET_NO_NEW_PRIVS) is not checked *)
SetNoNewPrivsUnchecked ==
  /\ pc = "nnp"
  /\ \E ok \in BOOLEAN :
       /\ kern' = [kern EXCEPT !.no_new_privs = ok \/ kern.no_new_privs]
       /\ Goto(Ev("nnp", "", ok), PrivAfter("nnp"))
  /\ UNCHANGED <<fds, nfd, stdfd, config, args, helper, setIdx, pending, start, image>>
  /\ UNCHANGED <<env, twin>>
  /\ UNCHANGED parserVars

(* priv_restrict step 4: prctl(PR_SET_NO_NEW_PRIVS, 1), then return to main *)
SetNoNewPrivs ==
  /\ pc = "nnp"
  /\ \E ok \in BOOLEAN :
       IF ok
       THEN /\ kern' = [kern EXCEPT !.no_new_privs = TRUE]
            /\ Goto(Ev("nnp", "", TRUE), PrivAfter("nnp"))
       ELSE /\ Exit(Ev("nnp", "", FALSE), EXIT_FAIL)
            /\ UNCHANGED kern
  /\ UNCHANGED <<fds, nfd, stdfd, config, args, helper, setIdx, pending, start, image>>
  /\ UNCHANGED <<env, twin>>
  /\ UNCHANGED parserVars

(* ---- the environment: a set of <<name, value>> pairs, one per name ---- *)
DEBUG_VAR == "HULDUFOLK_DEBUG"

EnvUniverse ==
  LET hostile == { <<"PATH", "/tmp/evil">>, <<"LD_PRELOAD", "/tmp/x.so">> }
  IN { hostile, hostile \cup { <<DEBUG_VAR, "">> } }

EnvHas(e, name) == \E p \in e : p[1] = name

\* the environment of the run that differs only in the presence of the toggle
EnvFlipDebug(e) ==
  IF EnvHas(e, DEBUG_VAR) THEN {p \in e : p[1] # DEBUG_VAR} ELSE e \cup { <<DEBUG_VAR, "1">> }

\* variant: Command keeps the inherited environment
EnvKeep(e) == e

(* Command::env_clear and Command::env *)
EnvClear(e) == {}

EnvSet(e, name, value) == {p \in e : p[1] # name} \cup { <<name, value>> }

(* Helper::execute: the environment handed to exec *)
ExecEnvp(e) ==
  EnvSet(EnvSet(EnvSet(EnvClear(e), "HOME", "/"), "TERM", "linux"),
         "PATH", "/sbin:/bin:/usr/sbin:/usr/bin")

\* variant: the whole invocation vector is appended after arg0
ExecArgvNoSkip(h, a) == <<h.path>> \o a

(* Helper::execute: args.iter().skip(1) after arg0(&self.path) *)
ExecArgv(h, a) == <<h.path>> \o Tail(a)

(* Helper::execute: the image, argument vector and environment handed to exec *)
ExecImage(h, a, e) ==
  [path |-> h.path, argv |-> ExecArgv(h, a), envp |-> ExecEnvp(e)]

\* variant: a capability category that cannot be read ends the run (unwrap)
DebugBlockUnwrap(toggle, readok) == IF toggle /\ ~readok THEN "exited" ELSE After("debug")

(* main: where control is after the dump block, given whether the toggle is *)
(* present and whether caps::read succeeds (unwrap_or_default)              *)
DebugBlock(toggle, readok) == After("debug")

(* the privilege-changing kernel operations recorded so far *)
PrivOpsOf(t) == SelectSeq(t, LAMBDA ev : ev.op \in {"securebits", "capset", "ambient", "nnp"})

(* main: the HULDUFOLK_DEBUG dump; the environment is read here for the first time *)
DebugDump ==
  /\ pc = "debug"
  /\ \E e \in EnvUniverse, readok \in BOOLEAN :
       LET toggle == EnvHas(e, DEBUG_VAR)
           to == DebugBlock(toggle, readok)
           tto == DebugBlock(~toggle, readok)
       IN /\ env' = Some(e)
          /\ pc' = to
          /\ exitStatus' = IF to = "exited" THEN Some(101) ELSE exitStatus
          /\ trace' = IF toggle THEN Append(trace, Ev("debug", config[helper].path, readok))
                      ELSE trace
          /\ twin' = Some([pc |-> tto,
                           exitStatus |-> IF tto = "exited" THEN Some(101) ELSE exitStatus,
                           image |-> None,
                           env |-> EnvFlipDebug(e),
                           privops |-> PrivOpsOf(trace)])
  /\ UNCHANGED <<fds, nfd, stdfd, config, args, helper, setIdx, pending, kern, start, image>>
  /\ UNCHANGED parserVars

(* the run with the opposite toggle makes the same exec call with the same answer *)
TwinExecute(ok) ==
  IF twin = None \/ Unwrap(twin).pc # "execute" THEN twin
  ELSE IF ok
  THEN Some([Unwrap(twin) EXCEPT !.pc = "replaced",
                                 !.image = Some(ExecImage(config[helper], args, Unwrap(twin).env))])
  ELSE Some([Unwrap(twin) EXCEPT !.pc = "exited", !.exitStatus = Some(EXIT_FAIL)])

\* variant: a rejected exec is tried again
ExecuteRetry ==
  /\ pc = "execute"
  /\ Cardinality({i \in 1..Len(trace) : trace[i].op = "exec"}) < Len(StdFds)
  /\ \E ok \in BOOLEAN :
       /\ image' = IF ok THEN Some(ExecImage(config[helper], args, Unwrap(env))) ELSE image
       /\ Goto(Ev("exec", config[helper].path, ok), IF ok THEN "replaced" ELSE "execute")
       /\ twin' = TwinExecute(ok)
  /\ UNCHANGED <<fds, nfd, stdfd, config, args, helper, setIdx, pending, kern, start, env>>
  /\ UNCHANGED parserVars

(* Helper::execute *)
Execute ==
  /\ pc = "execute"
  /\ \E ok \in BOOLEAN :
       /\ IF ok
          THEN /\ image' = Some(ExecImage(config[helper], args, Unwrap(env)))
               /\ Goto(Ev("exec", config[helper].path, TRUE), "replaced")
          ELSE /\ Exit(Ev("exec", config[helper].path, FALSE), EXIT_FAIL)
               /\ UNCHANGED image
       /\ twin' = TwinExecute(ok)
  /\ UNCHANGED <<fds, nfd, stdfd, config, args, helper, setIdx, pending, kern, start, env>>
  /\ UNCHANGED parserVars

Next ==
  \/ SanitizeOpen
  \/ SanitizeDup2
  \/ SanitizeCloseRange
  \/ LogToKmsg
  \/ ConfigLoad
  \/ CollectArgs
  \/ FindHelper
  \/ MainIfCaps
  \/ SetSecurebits
  \/ CapSet
  \/ CapSetDone
  \/ AmbientRaise
  \/ AmbientDone
  \/ SetNoNewPrivs
  \/ DebugDump
  \/ Execute

Spec == Init /\ [][Next]_vars

(* the process is always scheduled and every call it makes returns *)
FairSpec == Spec /\ WF_vars(Next)

TypeOK ==
  /\ fds \in [0..MaxFd -> {Closed, Inherited, DevNull, DevKmsg}]
  /\ config \in Config
  /\ args \in ArgVectors
  /\ helper \in 0..Len(config)
  /\ exitStatus \in {None} \cup {Some(s) : s \in {EXIT_FAIL, EXIT_NO_DEVNULL, EXIT_FAIL_IF} \cup PanicOutcomes}

(***************************************************************************)
(* deserialize_caps, on strings as sequences of characters.  Capability    *)
(* names are abbreviated to one letter: m = cap_sys_module,                *)
(* n = cap_net_admin; every other name is unknown to Capability::from_str.  *)
(***************************************************************************)
CapChars == {" ", ",", "=", "+", "-", "m", "N", "x"}

CapStrings == SeqsUpTo(CapChars, MaxCapStr)

IsWhitespace(c) == c = " "

RECURSIVE TrimStart(_)
TrimStart(s) == IF s # <<>> /\ IsWhitespace(Head(s)) THEN TrimStart(Tail(s)) ELSE s

RECURSIVE TrimEnd(_)
TrimEnd(s) ==
  IF s # <<>> /\ IsWhitespace(s[Len(s)]) THEN TrimEnd(SubSeq(s, 1, Len(s) - 1)) ELSE s

Trim(s) == TrimEnd(TrimStart(s))

RECURSIVE TrimStartMatches(_, _)
TrimStartMatches(s, c) ==
  IF s # <<>> /\ Head(s) = c THEN TrimStartMatches(Tail(s), c) ELSE s

(* str::split(pred): the pieces between separators, empty pieces included *)
RECURSIVE SplitOn(_, _)
SplitOn(s, seps) ==
  IF \A i \in 1..Len(s) : s[i] \notin seps THEN <<s>>
  ELSE LET i == CHOOSE k \in 1..Len(s) : s[k] \in seps /\ \A j \in 1..(k - 1) : s[j] \notin seps
       IN <<SubSeq(s, 1, i - 1)>> \o SplitOn(SubSeq(s, i + 1, Len(s)), seps)

(* .split(whitespace or ',').filter(|part| !part.is_empty()) *)
CapParts(clean) == SelectSeq(SplitOn(clean, {" ", ","}), LAMBDA part : part # <<>>)

\* variant: the flag suffix is kept in the name
NameOfWhole(part) == part

(* part.split('+' or '-').next() *)
NameOf(part) == Head(SplitOn(part, {"+", "-"}))

UpperOf == [c \in {"m", "n", "x", "e", "i", "p"} |->
              CASE c = "m" -> "M" [] c = "n" -> "N" [] c = "x" -> "X"
                [] c = "e" -> "E" [] c = "i" -> "I" [] c = "p" -> "P"]

ToUppercase(name) == [i \in 1..Len(name) |-> IF name[i] \in DOMAIN UpperOf THEN UpperOf[name[i]]
                                              ELSE name[i]]

(* Capability::from_str: Some(capability) for a known name, None for an error *)
CapabilityFromStr(name) ==
  IF name = <<"M">> THEN Some("CAP_SYS_MODULE")
  ELSE IF name = <<"N">> THEN Some("CAP_NET_ADMIN")
  ELSE None

(* Result<Option<HashSet<Capability>>, D::Error> *)
OkCaps(o) == [tag |-> "Ok", caps |-> o, bad |-> <<>>]

ErrCaps(name) == [tag |-> "Err", caps |-> None, bad |-> name]

\* variant: a name that does not resolve is skipped (filter_map)
CollectCapsSkipBad(parts) ==
  OkCaps(Some(UNION {CapabilityFromStr(ToUppercase(NameOf(parts[i]))) : i \in 1..Len(parts)}))

(* .map(..).collect::<Result<HashSet<_>, _>>(): the first error ends the collection *)
CollectCaps(parts) ==
  LET bad == {i \in 1..Len(parts) : CapabilityFromStr(ToUppercase(NameOf(parts[i]))) = None}
  IN IF bad # {}
     THEN ErrCaps(NameOf(parts[CHOOSE i \in bad : \A j \in bad : i <= j]))
     ELSE OkCaps(Some({Unwrap(CapabilityFromStr(ToUppercase(NameOf(parts[i])))) :
                         i \in 1..Len(parts)}))

deserialize_caps(s) ==
  LET clean_s == Trim(TrimStartMatches(Trim(s), "="))
  IN IF clean_s = <<>> THEN OkCaps(None) ELSE CollectCaps(CapParts(clean_s))

(* Helper.capabilities: #[serde(deserialize_with = "deserialize_caps", default)] *)
HelperCapabilities(key) ==
  IF key = None THEN OkCaps(None) ELSE deserialize_caps(Unwrap(key))

(* ---- capability lists written in the legacy libcap form ---- *)
LegacyItem == [name : {"m", "n"}, upper : BOOLEAN,
               flags : {<<"+", "e", "i", "p">>, <<"-", "e">>}]

LegacyList == [items : SeqsUpTo(LegacyItem, MaxNames),
               marker : {<<"=">>, <<"=", " ">>},
               sep : {" ", ","}]

RECURSIVE JoinWith(_, _)
JoinWith(words, sep) ==
  IF words = <<>> THEN <<>>
  ELSE IF Len(words) = 1 THEN words[1]
  ELSE words[1] \o <<sep>> \o JoinWith(Tail(words), sep)

LegacyForm(l) ==
  l.marker \o JoinWith([i \in 1..Len(l.items) |->
                          (IF l.items[i].upper THEN ToUppercase(<<l.items[i].name>>)
                           ELSE <<l.items[i].name>>) \o l.items[i].flags], l.sep)

BareForm(l) == JoinWith([i \in 1..Len(l.items) |-> <<l.items[i].name>>], l.sep)

(* the deserialization of one capabilities key, on its own *)
ParseInit ==
  /\ pc = "deserialize_caps"
  /\ fds = [fd \in 0..MaxFd |-> Closed]
  /\ nfd = -1
  /\ stdfd = 1
  /\ config = <<>>
  /\ args = <<>>
  /\ helper = 0
  /\ setIdx = 1
  /\ pending = {}
  /\ kern \in StartStates
  /\ start = kern
  /\ trace = <<>>
  /\ exitStatus = None
  /\ image = None
  /\ env = None
  /\ twin = None
  /\ capres = None
  /\ \/ /\ caplist = None
        /\ capkey \in {None} \cup {Some(str) : str \in CapStrings}
     \/ /\ caplist \in {Some(l) : l \in LegacyList}
        /\ capkey = Some(LegacyForm(Unwrap(caplist)))

Deserialize ==
  /\ pc = "deserialize_caps"
  /\ capres' = Some(HelperCapabilities(capkey))
  /\ pc' = "deserialized"
  /\ UNCHANGED <<fds, nfd, stdfd, config, args, helper, setIdx, pending, kern, start,
                 trace, exitStatus, image, env, twin, capkey, caplist>>

ParseNext == Deserialize

SpecParse == ParseInit /\ [][ParseNext]_vars

(***************************************************************************)
(* Properties                                                              *)
(***************************************************************************)

(* C1: the steps of main occur in one fixed total order: no call is made   *)
(* after a call of a later stage; the configuration is read only after     *)
(* sanitize_fds has completed, a privilege-changing kernel operation is    *)
(* made only after find_helper has returned a helper, and exec is called   *)
(* after a privilege restriction only once that restriction has completed. *)
C1_PipelineOrder ==
  LET rank(op) == CASE op \in {"open", "dup2", "close_range"} -> 1
                    [] op = "log_to_kmsg" -> 2
                    [] op = "load" -> 3
                    [] op = "args" -> 4
                    [] op = "find_helper" -> 5
                    [] op \in {"securebits", "capset", "ambient", "nnp"} -> 6
                    [] op = "debug" -> 7
                    [] op = "exec" -> 8
      n == Len(trace)
  IN /\ \A i \in 1..(n - 1) : rank(trace[i].op) <= rank(trace[i + 1].op)
     /\ \A j \in 1..n : trace[j].op = "load" =>
          \E i \in 1..(j - 1) : trace[i] = Ev("close_range", "", TRUE)
     /\ \A j \in 1..n : trace[j].op \in {"securebits", "capset", "ambient", "nnp"} =>
          \E i \in 1..(j - 1) : trace[i].op = "find_helper" /\ trace[i].ok
     /\ \A j \in 1..n : (trace[j].op = "exec" /\ \E i \in 1..n : trace[i].op = "securebits") =>
          \E i \in 1..(j - 1) : trace[i] = Ev("nnp", "", TRUE)

C1_Witness ==
  /\ pc = "replaced"
  /\ \E i \in 1..Len(trace) : trace[i].op = "nnp"
  /\ \E i \in 1..Len(trace) : trace[i].op = "debug"

(* C2: for a matched helper with a configured capability set, in the order *)
(* of the recorded kernel operations the securebits change precedes every  *)
(* capability-set replacement, every replacement precedes every ambient    *)
(* raise, every ambient raise precedes the no-new-privileges call, and     *)
(* that call precedes exec.                                                *)
C2_KernelOpOrder ==
  LET krank(op) == CASE op = "securebits" -> 1
                     [] op = "capset" -> 2
                     [] op = "ambient" -> 3
                     [] op = "nnp" -> 4
                     [] op = "exec" -> 5
                     [] OTHER -> 0
      n == Len(trace)
  IN (helper # 0 /\ config[helper].capabilities # None) =>
       \A i \in 1..n, j \in 1..n :
         (krank(trace[i].op) # 0 /\ krank(trace[i].op) < krank(trace[j].op)) => i < j

C2_Witness ==
  /\ pc = "replaced"
  /\ config[helper].capabilities = Some(ModuleCaps)
  /\ Cardinality({i \in 1..Len(trace) : trace[i].op = "ambient"}) = Cardinality(ModuleCaps)
  /\ Cardinality({i \in 1..Len(trace) : trace[i].op = "capset"}) = Len(CapSetOrder)

(* C3: once find_helper has run on an invocation whose element 0 equals    *)
(* the path of no configured helper, the process has exited with the       *)
(* failure status, which is not zero, and no privilege-restriction         *)
(* operation and no exec has been or is ever made.                         *)
C3_NoMatchRejected ==
  LET n == Len(trace)
  IN (/\ \E i \in 1..n : trace[i].op = "find_helper"
      /\ Len(args) >= 1
      /\ \A k \in 1..Len(config) : config[k].path # args[1])
     => /\ pc = "exited"
        /\ exitStatus = Some(EXIT_FAIL)
        /\ EXIT_FAIL # 0
        /\ helper = 0
        /\ image = None
        /\ kern = start
        /\ \A i \in 1..n : trace[i].op \notin {"securebits", "capset", "ambient", "nnp", "exec"}

C3_Witness ==
  /\ pc = "exited"
  /\ Len(config) = MaxHelpers
  /\ Len(args) >= 1
  /\ \A k \in 1..Len(config) : config[k].path # args[1]
  /\ trace[Len(trace)] = Ev("find_helper", args[1], FALSE)

(* C4: once priv_restrict(S) has completed, the effective, inheritable and *)
(* permitted categories each equal exactly S, the ambient category         *)
(* contains S, and no-new-privileges has been set exactly once, after all  *)
(* capability operations.                                                  *)
C4_RestrictedExactly ==
  LET n == Len(trace)
      nnps == {i \in 1..n : trace[i].op = "nnp"}
  IN (\E i \in 1..n : trace[i] = Ev("nnp", "", TRUE)) =>
       LET S == Unwrap(config[helper].capabilities)
       IN /\ kern.Effective = S
          /\ kern.Inheritable = S
          /\ kern.Permitted = S
          /\ S \subseteq kern.Ambient
          /\ kern.no_new_privs
          /\ Cardinality(nnps) = 1
          /\ \A i \in 1..n : trace[i].op \in {"securebits", "capset", "ambient"} =>
               \A j \in nnps : i < j
          /\ \A k \in 1..Len(CapSetOrder) :
               \E i \in 1..n : trace[i] = Ev("capset", CapSetOrder[k], TRUE)
          /\ \A c \in S : \E i \in 1..n : trace[i] = Ev("ambient", c, TRUE)

C4_Witness ==
  /\ \E i \in 1..Len(trace) : trace[i] = Ev("nnp", "", TRUE)
  /\ config[helper].capabilities = Some(ModuleCaps)
  /\ start.Effective = Caps
  /\ start.Inheritable = {}
  /\ kern.Effective = ModuleCaps
  /\ kern.Inheritable = ModuleCaps
  /\ kern.Ambient = ModuleCaps

(* C5: for a matched helper whose capability configuration is absent no    *)
(* privilege-restriction operation is made: securebits, the four           *)
(* categories and no-new-privileges keep their values of process start up  *)
(* to and including the moment of exec, and the run can only end by        *)
(* calling exec.                                                           *)
C5_AbsentMeansUntouched ==
  LET n == Len(trace)
  IN (helper # 0 /\ config[helper].capabilities = None) =>
       /\ kern = start
       /\ \A i \in 1..n : trace[i].op \notin {"securebits", "capset", "ambient", "nnp"}
       /\ pc \in {"priv_restrict", "debug", "execute", "replaced", "exited"}
       /\ pc \in {"replaced", "exited"} => trace[n].op = "exec"
       /\ pc = "replaced" => image = Some(ExecImage(config[helper], args, Unwrap(env)))

C5_Witness ==
  /\ pc = "replaced"
  /\ helper # 0
  /\ config[helper].capabilities = None
  /\ kern = start
  /\ start.Effective = Caps
  /\ trace[Len(trace)] = Ev("exec", config[helper].path, TRUE)

(* C6: when sanitize_fds returns, descriptors 0, 1 and 2 each refer to the *)
(* discard device and no descriptor numbered 3 or above is open, the one   *)
(* sanitize_fds opened itself included.                                    *)
C6_SanitizedTable ==
  (Len(trace) > 0 /\ trace[Len(trace)] = Ev("close_range", "", TRUE)) =>
     /\ \A fd \in 0..2 : fds[fd] = DevNull
     /\ \A fd \in DOMAIN fds : fd >= 3 => fds[fd] = Closed

C6_Witness ==
  /\ Len(trace) = 5
  /\ trace[Len(trace)] = Ev("close_range", "", TRUE)
  /\ fds[0] = DevNull
  /\ fds[MaxFd] = Closed

(* C7: a failure in sanitize_fds ends the process before any other side    *)
(* effect, and the exit statuses are reserved: status 2 is produced by the *)
(* failed open of the discard device and by nothing else, status 3 by the  *)
(* failed redirection or bulk close and by nothing else, and status 1 only *)
(* by failures after the sanitizer; the three statuses are distinct and    *)
(* not zero.                                                               *)
C7_SanitizerStatuses ==
  LET n == Len(trace)
      failedIn(ops) == pc = "exited" /\ n > 0 /\ trace[n].op \in ops /\ ~trace[n].ok
  IN /\ Cardinality({0, EXIT_FAIL, EXIT_NO_DEVNULL, EXIT_FAIL_IF}) = 4
     /\ exitStatus = Some(EXIT_NO_DEVNULL) <=> failedIn({"open"})
     /\ exitStatus = Some(EXIT_FAIL_IF) <=> failedIn({"dup2", "close_range"})
     /\ exitStatus = Some(EXIT_FAIL) => failedIn({"load", "find_helper", "securebits", "capset",
                                                   "ambient", "nnp", "exec"})
     /\ failedIn({"open", "dup2", "close_range"}) =>
          /\ \A i \in 1..n : trace[i].op \in {"open", "dup2", "close_range"}
          /\ \A fd \in DOMAIN fds : fds[fd] # DevKmsg
          /\ config = <<>>
          /\ args = <<>>
          /\ helper = 0
          /\ kern = start
          /\ image = None

C7_Witness ==
  /\ pc = "exited"
  /\ exitStatus = Some(EXIT_FAIL_IF)
  /\ trace[Len(trace)] = Ev("close_range", "", FALSE)

(* C8 as stated: a failure of configuration loading, helper matching, the  *)
(* securebits call, a capability-set replacement, an ambient raise or the  *)
(* no-new-privileges call ends the process with the generic status, with   *)
(* no later operation; exec is never reached with a restriction partially  *)
(* applied.                                                                *)
C8_Original ==
  LET n == Len(trace)
  IN /\ \A i \in 1..n :
          (trace[i].op \in {"load", "find_helper", "securebits", "capset", "ambient", "nnp"}
             /\ ~trace[i].ok)
          => (i = n /\ pc = "exited" /\ exitStatus = Some(EXIT_FAIL) /\ image = None)
     /\ \A j \in 1..n : (trace[j].op = "exec" /\ \E i \in 1..n : trace[i].op = "securebits") =>
          \E i \in 1..(j - 1) : trace[i] = Ev("nnp", "", TRUE)

(* C8 amended: such a failure ends the process with no later operation and *)
(* with a status that is not zero: the generic status 1, or, when the      *)
(* argument vector is empty and find_helper panics, the outcome of the     *)
(* panic; exec is never reached with a restriction partially applied.      *)
C8_FailuresTerminal ==
  LET n == Len(trace)
      panicked == Len(args) = 0 /\ trace[n] = Ev("find_helper", "panic", FALSE)
  IN /\ \A i \in 1..n :
          (trace[i].op \in {"load", "find_helper", "securebits", "capset", "ambient", "nnp"}
             /\ ~trace[i].ok)
          => /\ i = n
             /\ pc = "exited"
             /\ image = None
             /\ exitStatus # None
             /\ Unwrap(exitStatus) # 0
             /\ IF panicked THEN Unwrap(exitStatus) \in PanicOutcomes
                ELSE exitStatus = Some(EXIT_FAIL)
     /\ \A j \in 1..n : (trace[j].op = "exec" /\ \E i \in 1..n : trace[i].op = "securebits") =>
          /\ \E i \in 1..(j - 1) : trace[i] = Ev("nnp", "", TRUE)
          /\ \A k \in 1..Len(CapSetOrder) :
               \E i \in 1..(j - 1) : trace[i] = Ev("capset", CapSetOrder[k], TRUE)
          /\ \A c \in Unwrap(config[helper].capabilities) :
               \E i \in 1..(j - 1) : trace[i] = Ev("ambient", c, TRUE)

C8_Witness ==
  /\ pc = "exited"
  /\ exitStatus = Some(EXIT_FAIL)
  /\ trace[Len(trace)] = Ev("ambient", "CAP_NET_ADMIN", FALSE)
  /\ kern.Ambient = start.Ambient \cup {"CAP_SYS_MODULE"}
  /\ kern.Effective = ModuleCaps

(* C9: a helper with an expected argument count is never matched by an     *)
(* invocation of another length, even if element 0 equals its path:        *)
(* Helper::allowed is false for it and find_helper does not return it.     *)
C9_ArgcExact ==
  \A k \in 1..Len(config) :
    (config[k].argc # None /\ Len(args) # Unwrap(config[k].argc)) =>
       /\ ~allowed(config[k], args)
       /\ find_helper(config, args) # k
       /\ helper # k

C9_Witness ==
  /\ trace # <<>>
  /\ trace[Len(trace)].op = "find_helper"
  /\ Len(config) >= 1
  /\ Len(args) = 2
  /\ config[1].path = args[1]
  /\ config[1].argc = Some(1)
  /\ helper # 1

(* C10: find_helper returns the first helper in declaration order whose     *)
(* path equals element 0 and whose argc, when set, equals the length of    *)
(* the vector: the returned helper matches, no helper declared before it   *)
(* matches, and resolution fails exactly when no helper matches.           *)
C10_FirstMatchWins ==
  LET n == Len(trace)
      matches(k) == /\ Len(args) >= 1
                    /\ args[1] = config[k].path
                    /\ (config[k].argc = None \/ Some(Len(args)) = config[k].argc)
  IN \A i \in 1..n : trace[i].op = "find_helper" =>
       IF trace[i].ok
       THEN /\ helper \in 1..Len(config)
            /\ matches(helper)
            /\ \A k \in 1..(helper - 1) : ~matches(k)
       ELSE /\ helper = 0
            /\ \A k \in 1..Len(config) : ~matches(k)

C10_Witness ==
  /\ helper = 1
  /\ Len(config) = 2
  /\ config[2].path = config[1].path
  /\ config[2].capabilities # config[1].capabilities
  /\ config[2].argc = None
  /\ pc = "replaced"

(* C11: the environment handed to the exec'd helper does not depend on the *)
(* inherited environment: whatever was inherited, it is exactly HOME=/,    *)
(* TERM=linux, PATH=/sbin:/bin:/usr/sbin:/usr/bin, and the run with the    *)
(* other environment hands over the same.                                  *)
C11_FixedEnvironment ==
  LET fixed == { <<"HOME", "/">>, <<"TERM", "linux">>,
                 <<"PATH", "/sbin:/bin:/usr/sbin:/usr/bin">> }
  IN /\ image # None =>
          /\ env # None
          /\ Unwrap(image).envp = fixed
          /\ ~EnvHas(Unwrap(image).envp, DEBUG_VAR)
     /\ (twin # None /\ Unwrap(twin).image # None) => Unwrap(Unwrap(twin).image).envp = fixed

C11_Witness ==
  /\ pc = "replaced"
  /\ env # None
  /\ <<"PATH", "/tmp/evil">> \in Unwrap(env)
  /\ <<"LD_PRELOAD", "/tmp/x.so">> \in Unwrap(env)
  /\ EnvHas(Unwrap(env), DEBUG_VAR)
  /\ Cardinality(Unwrap(image).envp) = 3

C13_ToggleNoninterference ==
  twin # None =>
    LET t == Unwrap(twin)
    IN /\ EnvHas(t.env, DEBUG_VAR) # EnvHas(Unwrap(env), DEBUG_VAR)
       /\ {p \in t.env : p[1] # DEBUG_VAR} = {p \in Unwrap(env) : p[1] # DEBUG_VAR}
       /\ t.privops = PrivOpsOf(trace)
       /\ t.pc = pc
       /\ t.exitStatus = exitStatus
       /\ t.image = image

C13_Witness ==
  /\ pc = "replaced"
  /\ twin # None
  /\ EnvHas(Unwrap(env), DEBUG_VAR)
  /\ \E i \in 1..Len(trace) : trace[i] = Ev("debug", config[helper].path, FALSE)
  /\ Len(PrivOpsOf(trace)) > Len(CapSetOrder)
  /\ Unwrap(twin).image = image

(* C14: every run ends, in exactly one of two terminal states: replaced    *)
(* (exec succeeded) or exited with a status that is not zero; nothing      *)
(* happens after a terminal state, exec is attempted at most once, and a   *)
(* rejected exec is followed by nothing but the exit.                      *)
C14_Terminates ==
  /\ [](/\ pc = "exited" <=> exitStatus # None
        /\ pc = "replaced" <=> image # None
        /\ exitStatus # None => Unwrap(exitStatus) # 0
        /\ ~(exitStatus # None /\ image # None)
        /\ Cardinality({i \in 1..Len(trace) : trace[i].op = "exec"}) <= 1
        /\ \A i \in 1..Len(trace) : (trace[i].op = "exec" /\ ~trace[i].ok) =>
             (i = Len(trace) /\ pc = "exited" /\ exitStatus = Some(EXIT_FAIL)))
  /\ [][pc \notin {"replaced", "exited"}]_vars
  /\ <>(pc \in {"replaced", "exited"})

C14_Witness ==
  /\ pc = "exited"
  /\ exitStatus = Some(EXIT_FAIL)
  /\ helper # 0
  /\ trace # <<>>
  /\ trace[Len(trace)] = Ev("exec", config[helper].path, FALSE)
  /\ Cardinality({i \in 1..Len(trace) : trace[i].op = "exec"}) = 1

(* C19: an invocation with an empty argument vector matches no helper of   *)
(* any registry, and the run ends without a privilege-restriction          *)
(* operation and without exec.                                             *)
C19_EmptyArgvRejected ==
  (Len(args) = 0 /\ \E i \in 1..Len(trace) : trace[i].op = "find_helper") =>
     /\ \A k \in 1..Len(config) : ~allowed(config[k], args)
     /\ find_helper(config, args) = 0
     /\ helper = 0
     /\ pc = "exited"
     /\ exitStatus # None
     /\ image = None
     /\ kern = start
     /\ \A i \in 1..Len(trace) :
          trace[i].op \notin {"securebits", "capset", "ambient", "nnp", "exec"}

C19_Witness ==
  /\ pc = "exited"
  /\ Len(args) = 0
  /\ Len(config) = MaxHelpers
  /\ config[1].argc = None
  /\ trace # <<>>
  /\ trace[Len(trace)] = Ev("find_helper", "panic", FALSE)

(* C15: flag annotations and the legacy assignment marker are ignored: the *)
(* legacy form of a list of known capability names (leading '=', a +flags  *)
(* or -flags suffix on each name, any letter case) parses to the same      *)
(* result as the bare names, which is the set of the capabilities named.   *)
C15_LegacyIgnored ==
  (caplist # None /\ capres # None) =>
     LET l == Unwrap(caplist)
         named == {IF l.items[i].name = "m" THEN "CAP_SYS_MODULE" ELSE "CAP_NET_ADMIN" :
                     i \in 1..Len(l.items)}
     IN /\ Unwrap(capres) = deserialize_caps(BareForm(l))
        /\ Unwrap(capres).tag = "Ok"
        /\ Unwrap(capres).caps = IF l.items = <<>> THEN None ELSE Some(named)

C15_Witness ==
  /\ caplist # None
  /\ capres # None
  /\ capkey = Some(<<"=", " ", "m", "+", "e", "i", "p", " ", "N", "-", "e">>)
  /\ BareForm(Unwrap(caplist)) = <<"m", " ", "n">>
  /\ Unwrap(capres).caps = Some({"CAP_SYS_MODULE", "CAP_NET_ADMIN"})

(* C16 as stated: for every string the parser accepts, re-parsing the      *)
(* canonical string form of the parsed set (its names joined by            *)
(* separators) yields the same parse result.                               *)
C16_Original ==
  (capres # None /\ capkey # None /\ Unwrap(capres).tag = "Ok") =>
     LET res == Unwrap(capres)
         set == IF res.caps = None THEN {} ELSE Unwrap(res.caps)
         names == SelectSeq(<< <<"CAP_SYS_MODULE", <<"M">> >>, <<"CAP_NET_ADMIN", <<"N">> >> >>,
                            LAMBDA w : w[1] \in set)
         canonical == JoinWith([i \in 1..Len(names) |-> names[i][2]], " ")
     IN deserialize_caps(canonical) = res

(* C17: an empty or whitespace-only capability string, also after removal  *)
(* of a leading assignment marker, parses to absent, which differs from    *)
(* the empty set; an absent key yields absent; a name that does not        *)
(* resolve makes the deserialization fail instead of being skipped.        *)
C17_AbsentAndErrors ==
  capres # None =>
     LET res == Unwrap(capres)
     IN /\ OkCaps(None) # OkCaps(Some({}))
        /\ capkey = None => res = OkCaps(None)
        /\ capkey # None =>
             LET str == Unwrap(capkey)
                 blank == /\ \A i \in 1..Len(str) : str[i] \in {" ", "="}
                          /\ Cardinality({i \in 1..Len(str) : str[i] = "="}) <= 1
                 parts == CapParts(Trim(TrimStartMatches(Trim(str), "=")))
                 unresolved == {i \in 1..Len(parts) :
                                  CapabilityFromStr(ToUppercase(NameOf(parts[i]))) = None}
             IN /\ blank => res = OkCaps(None)
                /\ unresolved # {} =>
                     LET first == CHOOSE i \in unresolved : \A j \in unresolved : i <= j
                     IN res = ErrCaps(NameOf(parts[first]))
                /\ res.tag = "Err" => unresolved # {}

C17_Witness ==
  /\ capres # None
  /\ capkey = Some(<<"m", ",", "x">>)
  /\ Unwrap(capres) = ErrCaps(<<"x">>)

(* C18 as stated: a present capability set is never empty: a string that   *)
(* names no capability (only whitespace, commas and a leading assignment   *)
(* marker) parses to absent, never to the empty set.                       *)
C18_Original ==
  (capres # None /\ Unwrap(capres).tag = "Ok") =>
     /\ Unwrap(capres).caps # Some({})
     /\ (capkey # None /\ \A i \in 1..Len(Unwrap(capkey)) : Unwrap(capkey)[i] \in {" ", ",", "="})
          => Unwrap(capres).caps = None

====
